---- MODULE Spec2Model ----
(***************************************************************************)
(* Model of fix-pdf-escape.py: a linear script that reads Reports.js as    *)
(* UTF-8 text, substitutes every match of old_pattern by new_line, writes  *)
(* the text back to the same path and prints two status lines.             *)
(*                                                                         *)
(* The file on disk is a sequence of bytes, the text in memory a sequence  *)
(* of characters.  ASCII bytes and characters are one-character strings;   *)
(* "LF" and "CR" are the bytes/characters 0x0A and 0x0D; "C3" and "A9" are *)
(* the two bytes of the UTF-8 encoding of the character "U+00E9".          *)
(***************************************************************************)
EXTENDS Naturals, Sequences, FiniteSets

VARIABLES
    platform,    \* the operating system family: decides os.linesep
    exists,      \* the target path names a file
    perms,       \* the access the process has to the file
    disk,        \* the bytes of the file
    origExists,  \* exists, before the first run
    orig,        \* disk, before the first run
    content,     \* the script's variable content
    handles,     \* the open handles on the file: "r" and "w"
    pc,          \* the statement the script executes next
    stdout,      \* the lines printed by the current run
    error,       \* the exception that ended the run
    steps,       \* the statements the current run has completed
    run,         \* the number of the current run
    results      \* disk and error at the end of each earlier run

vars == << platform, exists, perms, disk, origExists, orig, content, handles,
           pc, stdout, error, steps, run, results >>

\* Number of text segments an initial file content is built from.
MaxSegs == 3

\* Number of times the script is invoked in succession.
MaxRuns == 2

(***************************************************************************)
(* Line 9: the regular expression, character by character as written in    *)
(* the raw string literal.                                                 *)
(***************************************************************************)
old_pattern ==
    << "r", "e", "t", "u", "r", "n", " ", "t", "e", "x", "t", "\\",
       ".", "r", "e", "p", "l", "a", "c", "e", "\\", "(", "/", "&",
       "/", "g", ",", " ", "'", "&", "a", "m", "p", ";", "'", "\\",
       ")", "\\", ".", "r", "e", "p", "l", "a", "c", "e", "\\", "(",
       "/", "<", "\\", "/", "g", ",", " ", "'", "&", "l", "t", ";",
       "'", "\\", ")", "\\", ".", "r", "e", "p", "l", "a", "c", "e",
       "\\", "(", "/", ">", "\\", "/", "g", ",", " ", "'", "&", "g",
       "t", ";", "'", "\\", ")", ";" >>

\* Line 10: the replacement text.
new_line ==
    << "r", "e", "t", "u", "r", "n", " ", "t", "e", "x", "t", ";" >>

(***************************************************************************)
(* What re compiles old_pattern to.  A backslash followed by a character   *)
(* that is not alphanumeric is that character taken literally; every other *)
(* character of old_pattern is an ordinary character (none of them is a    *)
(* regex metacharacter), so the compiled pattern is one literal string.    *)
(***************************************************************************)
\* The least element of a non-empty set of positions.
Min(S) == CHOOSE x \in S : \A y \in S : x <= y

\* The positions from i on at which the sequence s holds the element c.
Positions(s, i, c) == { j \in i..Len(s) : s[j] = c }

RECURSIVE RegexLiteralFrom(_, _)
RegexLiteralFrom(rx, i) ==
    LET esc == { j \in Positions(rx, i, "\\") : j < Len(rx) }
    IN  IF esc = { } THEN SubSeq(rx, i, Len(rx))
        ELSE SubSeq(rx, i, Min(esc) - 1) \o << rx[Min(esc) + 1] >>
             \o RegexLiteralFrom(rx, Min(esc) + 2)

RegexLiteral(rx) == RegexLiteralFrom(rx, 1)

Pattern == RegexLiteral(old_pattern)

\* The compiled pattern matches the text s at position i.
MatchAt(pat, s, i) ==
    /\ i + Len(pat) - 1 <= Len(s)
    /\ \A k \in 1..Len(pat) : s[i + k - 1] = pat[k]

\* The positions from i on at which the pattern matches.
Matches(pat, s, i) == { j \in i..Len(s) : MatchAt(pat, s, j) }

\* The number of places at which the pattern occurs in s.
Count(pat, s) == Cardinality(Matches(pat, s, 1))

\* Faulty variant of SubFrom: re.sub called with count=1.
SubFirstOnly(pat, repl, s, i) ==
    LET m == Matches(pat, s, i)
    IN  IF m = { } THEN SubSeq(s, i, Len(s))
        ELSE SubSeq(s, i, Min(m) - 1) \o repl
             \o SubSeq(s, Min(m) + Len(pat), Len(s))

\* Faulty variant of SubFrom: the scan resumes one character too far.
RECURSIVE SubSkipOne(_, _, _, _)
SubSkipOne(pat, repl, s, i) ==
    LET m == Matches(pat, s, i)
    IN  IF m = { } THEN SubSeq(s, i, Len(s))
        ELSE SubSeq(s, i, Min(m) - 1) \o repl
             \o SubSkipOne(pat, repl, s, Min(m) + Len(pat) + 1)

(***************************************************************************)
(* re.sub(pattern, repl, string): search for the leftmost match from the   *)
(* current position, copy the text before it, emit repl, continue after    *)
(* the match; copy the rest when there is no further match.                *)
(***************************************************************************)
RECURSIVE SubFrom(_, _, _, _)
SubFrom(pat, repl, s, i) ==
    LET m == Matches(pat, s, i)
    IN  IF m = { } THEN SubSeq(s, i, Len(s))
        ELSE SubSeq(s, i, Min(m) - 1) \o repl
             \o SubFrom(pat, repl, s, Min(m) + Len(pat))

re_sub(rx, repl, s) == SubFrom(RegexLiteral(rx), repl, s, 1)

(***************************************************************************)
(* Text-mode file I/O with encoding='utf-8' and the default newline=None.  *)
(***************************************************************************)
\* The byte sequence b is well-formed UTF-8.
\* (a lead byte with no continuation byte, or a continuation byte with no
\* lead byte, is the decoder's error.)
IllFormedAt(b, i) ==
    \/ b[i] = "C3" /\ ~ (i < Len(b) /\ b[i + 1] = "A9")
    \/ b[i] = "A9" /\ ~ (i > 1 /\ b[i - 1] = "C3")

ValidUtf8(b) == { i \in 1..Len(b) : IllFormedAt(b, i) } = { }

\* The UTF-8 decoder: the two bytes C3 A9 are one character.
RECURSIVE DecodeFrom(_, _)
DecodeFrom(b, i) ==
    LET lead == Positions(b, i, "C3")
    IN  IF lead = { } THEN SubSeq(b, i, Len(b))
        ELSE SubSeq(b, i, Min(lead) - 1) \o << "U+00E9" >>
             \o DecodeFrom(b, Min(lead) + 2)

Decode(b) == DecodeFrom(b, 1)

\* The UTF-8 encoder.
RECURSIVE EncodeFrom(_, _)
EncodeFrom(s, i) ==
    LET wide == Positions(s, i, "U+00E9")
    IN  IF wide = { } THEN SubSeq(s, i, Len(s))
        ELSE SubSeq(s, i, Min(wide) - 1) \o << "C3", "A9" >>
             \o EncodeFrom(s, Min(wide) + 1)

Encode(s) == EncodeFrom(s, 1)

\* Faulty variant of ReadTranslate: the file is read with newline=''.
ReadTranslateNone(s) == s

\* Reading with newline=None: "\r\n" and "\r" both become "\n".
RECURSIVE ReadTranslateFrom(_, _)
ReadTranslateFrom(s, i) ==
    LET cr == Positions(s, i, "CR")
    IN  IF cr = { } THEN SubSeq(s, i, Len(s))
        ELSE SubSeq(s, i, Min(cr) - 1) \o << "LF" >>
             \o ReadTranslateFrom(s,
                    IF Min(cr) < Len(s) /\ s[Min(cr) + 1] = "LF"
                    THEN Min(cr) + 2 ELSE Min(cr) + 1)

ReadTranslate(s) == ReadTranslateFrom(s, 1)

\* os.linesep of the platform the script runs on.
linesep(p) == IF p = "nt" THEN << "CR", "LF" >> ELSE << "LF" >>

\* Writing with newline=None: every "\n" becomes os.linesep.
RECURSIVE WriteTranslateFrom(_, _, _)
WriteTranslateFrom(p, s, i) ==
    LET lf == Positions(s, i, "LF")
    IN  IF lf = { } THEN SubSeq(s, i, Len(s))
        ELSE SubSeq(s, i, Min(lf) - 1) \o linesep(p)
             \o WriteTranslateFrom(p, s, Min(lf) + 1)

WriteTranslate(p, s) == WriteTranslateFrom(p, s, 1)

\* f.read() on a file holding the bytes b.
ReadText(b) == ReadTranslate(Decode(b))

\* The bytes f.write(s) puts in the file.
WriteBytes(p, s) == Encode(WriteTranslate(p, s))

(***************************************************************************)
(* Initial file contents: every concatenation of at most MaxSegs segments. *)
(***************************************************************************)
Segments ==
    { Pattern,
      SubSeq(Pattern, 1, 7),
      SubSeq(Pattern, 8, Len(Pattern)),
      new_line, << "x" >>, << "LF" >>, << "CR" >>, << "C3" >>, << "A9" >> }

RECURSIVE Flatten(_)
Flatten(ss) == IF ss = << >> THEN << >> ELSE Head(ss) \o Flatten(Tail(ss))

Contents ==
    { Flatten(ss) : ss \in UNION { [1..n -> Segments] : n \in 0..MaxSegs } }

\* How much of n bytes of data reached the file when the write fails: none
\* of it or the first half (two of the outcomes the system can produce).
PartialLens(n) == { 0, n \div 2 }

Init ==
    /\ platform \in { "posix", "nt" }
    /\ exists \in BOOLEAN
    /\ IF exists
       THEN disk \in Contents /\ perms \in { {"r", "w"}, {"r"}, {"w"} }
       ELSE disk = << >> /\ perms = { }
    /\ origExists = exists
    /\ orig = disk
    /\ content = << >>
    /\ handles = { }
    /\ pc = "open_r"
    /\ stdout = << >>
    /\ error = "none"
    /\ steps = << >>
    /\ run = 1
    /\ results = << >>

\* The bytes of the file when the current run started.
Before == IF run = 1 THEN orig ELSE results[run - 1].disk

\* The run has ended, normally or with an unhandled exception.
Terminal == pc \in { "done", "failed" }

Fail(e) ==
    /\ pc' = "failed"
    /\ error' = e

\* Line 4: open(path, 'r', encoding='utf-8') succeeds.
OpenRead ==
    /\ pc = "open_r"
    /\ exists /\ "r" \in perms
    /\ handles' = handles \cup { "r" }
    /\ pc' = "read"
    /\ steps' = Append(steps, "open_r")
    /\ UNCHANGED << platform, exists, perms, disk, origExists, orig,
                    content, stdout, error, run, results >>

\* Faulty variant of OpenReadFail: the file is opened in a mode that
\* creates it when it is missing.
OpenReadCreates ==
    /\ pc = "open_r"
    /\ ~ (exists /\ "r" \in perms)
    /\ exists' = TRUE
    /\ handles' = handles \cup { "r" }
    /\ pc' = "read"
    /\ steps' = Append(steps, "open_r")
    /\ UNCHANGED << platform, perms, disk, origExists, orig, content,
                    stdout, error, run, results >>

\* Line 4: open(path, 'r') raises FileNotFoundError or PermissionError.
OpenReadFail ==
    /\ pc = "open_r"
    /\ ~ (exists /\ "r" \in perms)
    /\ Fail("FileAccessError")
    /\ UNCHANGED << platform, exists, perms, disk, origExists, orig,
                    content, handles, stdout, steps, run, results >>

\* Line 5: content = f.read().
Read ==
    /\ pc = "read"
    /\ ValidUtf8(disk)
    /\ content' = ReadText(disk)
    /\ pc' = "close_r"
    /\ steps' = Append(steps, "read")
    /\ UNCHANGED << platform, exists, perms, disk, origExists, orig,
                    handles, stdout, error, run, results >>

\* Faulty variant of ReadFail: the file is opened without a with block, so
\* the exception leaves the handle open.
ReadFailLeaks ==
    /\ pc = "read"
    /\ ~ ValidUtf8(disk)
    /\ Fail("EncodingError")
    /\ UNCHANGED << platform, exists, perms, disk, origExists, orig,
                    content, handles, stdout, steps, run, results >>

\* Line 5: f.read() raises UnicodeDecodeError; the with block closes f.
ReadFail ==
    /\ pc = "read"
    /\ ~ ValidUtf8(disk)
    /\ handles' = handles \ { "r" }
    /\ Fail("EncodingError")
    /\ UNCHANGED << platform, exists, perms, disk, origExists, orig,
                    content, stdout, steps, run, results >>

\* Lines 4-5: leaving the with block closes the read handle.
CloseRead ==
    /\ pc = "close_r"
    /\ handles' = handles \ { "r" }
    /\ pc' = "sub"
    /\ steps' = Append(steps, "close_r")
    /\ UNCHANGED << platform, exists, perms, disk, origExists, orig,
                    content, stdout, error, run, results >>

\* Line 12: content = re.sub(old_pattern, new_line, content).
Substitute ==
    /\ pc = "sub"
    /\ content' = re_sub(old_pattern, new_line, content)
    /\ pc' = "open_w"
    /\ steps' = Append(steps, "sub")
    /\ UNCHANGED << platform, exists, perms, disk, origExists, orig,
                    handles, stdout, error, run, results >>

\* Line 15: open(path, 'w', encoding='utf-8') succeeds and truncates.
OpenWrite ==
    /\ pc = "open_w"
    /\ "w" \in perms
    /\ disk' = << >>
    /\ exists' = TRUE
    /\ handles' = handles \cup { "w" }
    /\ pc' = "write"
    /\ steps' = Append(steps, "open_w")
    /\ UNCHANGED << platform, perms, origExists, orig, content, stdout,
                    error, run, results >>

\* Faulty variant of OpenWriteFail: the error is swallowed and the script
\* goes on to its print calls.
OpenWriteFailSwallowed ==
    /\ pc = "open_w"
    /\ "w" \notin perms
    /\ pc' = "print1"
    /\ UNCHANGED << platform, exists, perms, disk, origExists, orig,
                    content, handles, stdout, error, steps, run, results >>

\* Line 15: open(path, 'w') raises PermissionError.
OpenWriteFail ==
    /\ pc = "open_w"
    /\ "w" \notin perms
    /\ Fail("FileAccessError")
    /\ UNCHANGED << platform, exists, perms, disk, origExists, orig,
                    content, handles, stdout, steps, run, results >>

\* Line 16: f.write(content) puts the whole text in the file.
Write ==
    /\ pc = "write"
    /\ disk' = WriteBytes(platform, content)
    /\ pc' = "close_w"
    /\ steps' = Append(steps, "write")
    /\ UNCHANGED << platform, exists, perms, origExists, orig, content,
                    handles, stdout, error, run, results >>

\* Line 16: the write raises OSError (disk full, I/O error) after part of
\* the data reached the file; the with block closes f.
WriteFail ==
    /\ pc = "write"
    /\ \E k \in PartialLens(Len(WriteBytes(platform, content))) :
           disk' = SubSeq(WriteBytes(platform, content), 1, k)
    /\ handles' = handles \ { "w" }
    /\ Fail("OSError")
    /\ UNCHANGED << platform, exists, perms, origExists, orig, content,
                    stdout, steps, run, results >>

\* Lines 15-16: leaving the with block closes the write handle.
CloseWrite ==
    /\ pc = "close_w"
    /\ handles' = handles \ { "w" }
    /\ pc' = "print1"
    /\ steps' = Append(steps, "close_w")
    /\ UNCHANGED << platform, exists, perms, disk, origExists, orig,
                    content, stdout, error, run, results >>

\* Line 18: print('File updated successfully!').
Print1 ==
    /\ pc = "print1"
    /\ stdout' = Append(stdout, "File updated successfully!")
    /\ pc' = "print2"
    /\ steps' = Append(steps, "print1")
    /\ UNCHANGED << platform, exists, perms, disk, origExists, orig,
                    content, handles, error, run, results >>

\* Faulty variant of Print2: the script calls re.subn and the f-string
\* interpolates the number of replacements.
Print2Count ==
    /\ pc = "print2"
    /\ stdout' = Append(stdout,
                     IF Count(Pattern, ReadText(Before)) = 0
                     THEN "Replacements made: 0"
                     ELSE IF Count(Pattern, ReadText(Before)) = 1
                          THEN "Replacements made: 1"
                          ELSE "Replacements made: 2 or more")
    /\ pc' = "done"
    /\ steps' = Append(steps, "print2")
    /\ UNCHANGED << platform, exists, perms, disk, origExists, orig,
                    content, handles, error, run, results >>

\* Line 19: print(f'Replacements made').
Print2 ==
    /\ pc = "print2"
    /\ stdout' = Append(stdout, "Replacements made")
    /\ pc' = "done"
    /\ steps' = Append(steps, "print2")
    /\ UNCHANGED << platform, exists, perms, disk, origExists, orig,
                    content, handles, error, run, results >>

\* The script is invoked again once a run has ended: a fresh process.
Rerun ==
    /\ Terminal
    /\ run < MaxRuns
    /\ run' = run + 1
    /\ results' = Append(results, [disk |-> disk, error |-> error])
    /\ content' = << >>
    /\ stdout' = << >>
    /\ error' = "none"
    /\ steps' = << >>
    /\ pc' = "open_r"
    /\ UNCHANGED << platform, exists, perms, disk, origExists, orig,
                    handles >>

Next ==
    \/ OpenRead
    \/ OpenReadFail
    \/ Read
    \/ ReadFail
    \/ CloseRead
    \/ Substitute
    \/ OpenWrite
    \/ OpenWriteFail
    \/ Write
    \/ WriteFail
    \/ CloseWrite
    \/ Print1
    \/ Print2
    \/ Rerun

Spec == Init /\ [][Next]_vars

TypeOK ==
    /\ pc \in { "open_r", "read", "close_r", "sub", "open_w", "write",
                "close_w", "print1", "print2", "done", "failed" }
    /\ handles \subseteq { "r", "w" }
    /\ run \in 1..MaxRuns

(***************************************************************************)
(* Properties.                                                             *)
(***************************************************************************)
\* The text the spec gives as the form of Pattern: the expression without
\* the leading "return ".
Form == SubSeq(Pattern, 8, Len(Pattern))

\* The text s with the occurrence of Pattern at position i replaced.
ReplaceAt(s, i) ==
    SubSeq(s, 1, i - 1) \o new_line \o SubSeq(s, i + Len(Pattern), Len(s))

Max(S) == CHOOSE x \in S : \A y \in S : x >= y

\* Replace one occurrence at a time, always the leftmost one left.
RECURSIVE LeftFirst(_)
LeftFirst(s) ==
    IF Matches(Pattern, s, 1) = { } THEN s
    ELSE LeftFirst(ReplaceAt(s, Min(Matches(Pattern, s, 1))))

\* Replace one occurrence at a time, always the rightmost one left.
RECURSIVE RightFirst(_)
RightFirst(s) ==
    IF Matches(Pattern, s, 1) = { } THEN s
    ELSE RightFirst(ReplaceAt(s, Max(Matches(Pattern, s, 1))))

\* The bytes a run without failure leaves in a file that held the bytes b.
Patched(b) == WriteBytes(platform, re_sub(old_pattern, new_line, ReadText(b)))

StatusLines == << "File updated successfully!", "Replacements made" >>

\* C1: when the file holds exactly one occurrence of Pattern, a successful
\* run leaves prefix + "return text;" + suffix, the prefix and the suffix
\* being the bytes before and after the occurrence, unchanged.
C1_SubstitutionCorrectness ==
    (pc = "done" /\ Count(Pattern, Before) = 1)
        => disk = ReplaceAt(Before, Min(Matches(Pattern, Before, 1)))

\* C2: when the file holds no occurrence of Pattern, a successful run has
\* written the file and the file is byte-identical to what it was.
C2_NoMatchPassThrough ==
    (pc = "done" /\ Count(Pattern, Before) = 0)
        => ("write" \in { steps[i] : i \in 1..Len(steps) } /\ disk = Before)

\* C3: after a successful run Pattern matches nowhere in the file, and a
\* run that follows another run ends with the bytes the earlier run left,
\* whether the runs succeed or fail on the content or the permissions (a
\* run in which the write itself fails is the subject of C6).
C3_Idempotence ==
    /\ pc = "done" => Count(Pattern, ReadText(disk)) = 0
    /\ ( /\ Terminal
         /\ run > 1
         /\ error # "OSError"
         /\ results[run - 1].error # "OSError" )
            => disk = results[run - 1].disk

C3_Witness ==
    /\ pc = "done"
    /\ run = 2
    /\ results[1].error = "none"
    /\ disk # orig
    /\ Count(Pattern, orig) >= 1
    /\ Positions(orig, 1, "LF") # { }

\* C4: when the text read holds two or more occurrences of Pattern, the one
\* substitution pass leaves no occurrence, and its result is the result of
\* replacing the occurrences one at a time from the left and also from the
\* right; that result is what a successful run writes.
C4_MultipleMatch ==
    ( /\ "sub" \in { steps[i] : i \in 1..Len(steps) }
      /\ Count(Pattern, ReadText(Before)) >= 2 )
        => /\ Count(Pattern, content) = 0
           /\ content = LeftFirst(ReadText(Before))
           /\ content = RightFirst(ReadText(Before))
           /\ Count(new_line, content)
                  = Count(new_line, ReadText(Before))
                        + Count(Pattern, ReadText(Before))
           /\ pc = "done" => disk = WriteBytes(platform, content)

C4_Witness ==
    /\ pc = "done"
    /\ run = 1
    /\ Count(Pattern, ReadText(orig)) >= 2
    /\ Len(content) > 2 * Len(new_line)

\* C5: when the path names no file, the run fails with a file-access error
\* at the open for reading: no statement completes, nothing is printed and
\* no file is created or written.
C5_MissingFile ==
    ~ origExists
        => /\ pc \in { "open_r", "failed" }
           /\ pc = "failed" => error = "FileAccessError"
           /\ ~ exists
           /\ disk = << >>
           /\ steps = << >>
           /\ content = << >>
           /\ stdout = << >>
           /\ handles = { }

C5_Witness == ~ origExists /\ pc = "failed" /\ error = "FileAccessError"

\* C6: at the end of a run, failed or not, the file holds either the bytes
\* it held when the run started or the fully substituted bytes.
C6_NoPartialWrite ==
    Terminal
        => \/ disk = Before
           \/ ValidUtf8(Before) /\ disk = Patched(Before)

\* C7: a line is printed only after the read, the substitution and the
\* write have completed and the write handle is closed; a run that fails
\* has printed nothing.
C7_ConfirmationOrdering ==
    /\ stdout # << >>
           => /\ Len(steps) >= 7
              /\ SubSeq(steps, 1, 7) = << "open_r", "read", "close_r", "sub",
                                         "open_w", "write", "close_w" >>
              /\ handles = { }
              /\ error = "none"
              /\ disk = Patched(Before)
    /\ pc = "failed" => stdout = << >>
    /\ pc = "done" => Len(stdout) = 2

C7_Witness == pc = "print2" /\ Len(stdout) = 1 /\ disk # Before

\* C8 as stated: after a successful run no occurrence of the form
\* text.replace(/&/g, '&amp;').replace(/</g, '&lt;').replace(/>/g, '&gt;');
\* is left in the file.
C8_PatternCoverage ==
    pc = "done" => Count(Form, ReadText(disk)) = 0

\* C8 amended: every occurrence of the form preceded by "return " is
\* replaced by "return text;" and none is left after a successful run; the
\* occurrences of the form not preceded by "return " stay.
C8_ReturnFormCoverage ==
    pc = "done"
        => /\ Count(Pattern, ReadText(disk)) = 0
           /\ Count(new_line, ReadText(disk))
                  = Count(new_line, ReadText(Before))
                        + Count(Pattern, ReadText(Before))
           /\ Count(Form, ReadText(disk)) + Count(Pattern, ReadText(Before))
                  = Count(Form, ReadText(Before))

C8_Witness ==
    /\ pc = "done"
    /\ run = 1
    /\ Count(Pattern, ReadText(orig)) >= 1
    /\ Count(Form, ReadText(disk)) >= 1
    /\ ~ MatchAt(Pattern, orig, 1)

\* C9: every successful run has printed the same two literal lines, however
\* many occurrences of Pattern the file held; at any time the output is a
\* prefix of those two lines.
C9_OutputIndependent ==
    /\ pc = "done" => stdout = StatusLines
    /\ Len(stdout) <= 2
    /\ stdout = SubSeq(StatusLines, 1, Len(stdout))

C9_Witness ==
    /\ pc = "done"
    /\ run = 1
    /\ Count(Pattern, ReadText(orig)) = 2
    /\ stdout = StatusLines

\* C10: at most one handle on the file is open; the read handle is open
\* only between the open for reading and the end of its with block, the
\* write handle only between the open for writing and the end of its with
\* block; no handle is open when the run has ended.
C10_HandleDiscipline ==
    /\ Cardinality(handles) <= 1
    /\ "r" \in handles => pc \in { "read", "close_r" }
    /\ "w" \in handles => pc \in { "write", "close_w" }
    /\ Terminal => handles = { }

C10_Witness == pc = "failed" /\ error = "EncodingError" /\ handles = { }

====
